---- MODULE Spec2Model ----
(***************************************************************************)
(* A model of the configurations package: the run-directory name parser    *)
(* of cli.py, the header resolver and the archive writer of                *)
(* configuration.py.                                                       *)
(*                                                                         *)
(* Text is a sequence of one-character strings, so that searching,         *)
(* splitting, lower-casing and number parsing are computed, not assumed.   *)
(***************************************************************************)
EXTENDS Integers, Sequences, FiniteSets, TLC

VARIABLES
    run_dir,        \* the argument of extract_run_parameters
    extract_out,    \* its outcome: [raised, value], or Pending before the call
    info,           \* the header map given to parse_xyz_header
    meta_out,       \* its outcome: [raised, meta], or PendingMeta before the call
    fs,             \* the file system: path -> NoFile or a file
    xyz_path,       \* the path Configuration is constructed from
    cfg,            \* the Configuration object, NoCfg before construction
    archive,        \* the file at the output path: NoArchive or an archive
    last,           \* the last operation: [op, raised, value]
    saved_by,       \* the Configuration whose save_to_hdf5 last wrote the archive
    dirs,           \* the directories that exist, each a sequence of components
    env,            \* the environment: BUCKET and PREFIX, '' when not set
    bucket,         \* the object store: key -> NoObject or an object
    pages,          \* the listing the store returns: pages of keys
    cli_out,        \* the last command: [cmd, args, exit, console, uploads, reads]
    storage,        \* the manager's storage directory: file name -> NoH5 or a file
    history,        \* the manager calls that succeeded: name -> what create gave
    core_out        \* the last manager call: [op, name, raised, value]

name_vars == <<run_dir, extract_out>>
header_vars == <<info, meta_out>>
archive_vars == <<fs, xyz_path, cfg, archive, last, saved_by>>
cli_vars == <<dirs, env, bucket, pages, cli_out>>
core_vars == <<storage, history, core_out>>
vars == <<name_vars, header_vars, archive_vars, cli_vars, core_vars>>

\* No command has run.
NoCommand == [cmd |-> "none", args |-> <<>>, exit |-> 0, console |-> <<>>,
              uploads |-> <<>>, reads |-> <<>>]

\* No manager call has been made.
NoCall == [op |-> "none", name |-> <<>>, raised |-> "none", value |-> <<>>]

\* The command-line state of the specifications that do not use it.
CliIdle ==
    /\ dirs = {}
    /\ env = [BUCKET |-> <<>>, PREFIX |-> <<>>]
    /\ bucket = [up |-> TRUE, objects |-> <<>>]
    /\ pages = <<>>
    /\ cli_out = NoCommand

\* The manager state of the specifications that do not use it.
CoreIdle ==
    /\ storage = <<>>
    /\ history = <<>>
    /\ core_out = NoCall

Pending == [raised |-> "pending", value |-> <<>>]

(***************************************************************************)
(* Text helpers                                                            *)
(***************************************************************************)
Digits == {"0", "1", "2", "3", "4", "5", "6", "7", "8", "9"}

DigitVal(c) ==
    CASE c = "0" -> 0 [] c = "1" -> 1 [] c = "2" -> 2 [] c = "3" -> 3
      [] c = "4" -> 4 [] c = "5" -> 5 [] c = "6" -> 6 [] c = "7" -> 7
      [] c = "8" -> 8 [] c = "9" -> 9

RECURSIVE Flatten(_)
Flatten(ss) == IF ss = <<>> THEN <<>> ELSE Head(ss) \o Flatten(Tail(ss))

(***************************************************************************)
(* cli.py: extract_run_parameters                                          *)
(***************************************************************************)

\* int(s) of a non-empty string of decimal digits, left to right.
RECURSIVE int_digits(_)
int_digits(ds) ==
    IF ds = <<>> THEN 0
    ELSE 10 * int_digits(SubSeq(ds, 1, Len(ds) - 1)) + DigitVal(ds[Len(ds)])

\* pathlib: the components of a path, empty and "." components dropped.
RECURSIVE path_parts(_, _)
path_parts(s, cur) ==
    LET keep == IF cur = <<>> \/ cur = <<".">> THEN <<>> ELSE <<cur>>
    IN  IF s = <<>> THEN keep
        ELSE IF Head(s) = "/" THEN keep \o path_parts(Tail(s), <<>>)
        ELSE path_parts(Tail(s), Append(cur, Head(s)))

\* Path(run_dir).name: the last component, '' when there is none.
path_name(s) ==
    LET parts == path_parts(s, <<>>)
    IN  IF parts = <<>> THEN <<>> ELSE parts[Len(parts)]

\* (\d+) at position i: the longest run of digits starting there.
RECURSIVE digit_run(_, _)
digit_run(s, i) ==
    IF i <= Len(s) /\ s[i] \in Digits THEN <<s[i]>> \o digit_run(s, i + 1)
    ELSE <<>>

literal_at(s, lit, i) ==
    /\ i + Len(lit) - 1 <= Len(s)
    /\ SubSeq(s, i, i + Len(lit) - 1) = lit

NoMatch == [matched |-> FALSE, group1 |-> <<>>]

\* The regex lit(\d+) tried at position i only.
re_match_at(lit, s, i) ==
    IF literal_at(s, lit, i) /\ digit_run(s, i + Len(lit)) # <<>>
    THEN [matched |-> TRUE, group1 |-> digit_run(s, i + Len(lit))]
    ELSE NoMatch

\* A scan that keeps going and so returns the last match instead of the first.
RECURSIVE re_search_last(_, _, _)
re_search_last(lit, s, i) ==
    IF i < 1 THEN NoMatch
    ELSE IF re_match_at(lit, s, i).matched THEN re_match_at(lit, s, i)
    ELSE re_search_last(lit, s, i - 1)

re_search_rightmost(lit, s) == re_search_last(lit, s, Len(s))

\* re.search(r'lit(\d+)', s): the match at the leftmost position that has one.
RECURSIVE re_search_from(_, _, _)
re_search_from(lit, s, i) ==
    IF i > Len(s) THEN NoMatch
    ELSE IF re_match_at(lit, s, i).matched THEN re_match_at(lit, s, i)
    ELSE re_search_from(lit, s, i + 1)

re_search(lit, s) == re_search_from(lit, s, 1)

lit_P == <<"P">>
lit_T == <<"T">>
lit_config == <<"c", "o", "n", "f", "i", "g">>

extract_run_parameters(rd) ==
    LET dir_name == path_name(rd)
        pressure_match == re_search(lit_P, dir_name)
        temp_match == re_search(lit_T, dir_name)
        config_match == re_search(lit_config, dir_name)
    IN  IF ~(pressure_match.matched /\ temp_match.matched /\ config_match.matched)
        THEN [raised |-> "ValueError", value |-> <<>>]
        ELSE [raised |-> "none",
              value |-> <<int_digits(pressure_match.group1),
                          int_digits(temp_match.group1),
                          int_digits(config_match.group1)>>]

(***************************************************************************)
(* Python values.  A value is [t, v]: t its type, v its content.  A float  *)
(* is finite with one decimal digit (v.tenths = ten times the number),     *)
(* infinite or not-a-number.  An array stands for what the structure-file  *)
(* reader returns for a header value of several numbers.                   *)
(***************************************************************************)
None == [t |-> "none", v |-> 0]
PyInt(n) == [t |-> "int", v |-> n]
PyFloat(tenths) == [t |-> "float", v |-> [cls |-> "finite", tenths |-> tenths]]
FloatInf == [t |-> "float", v |-> [cls |-> "inf", tenths |-> 0]]
FloatNaN == [t |-> "float", v |-> [cls |-> "nan", tenths |-> 0]]
PyStr(cs) == [t |-> "str", v |-> cs]
PyArray(ns) == [t |-> "array", v |-> ns]
PyEnum(member) == [t |-> "State", v |-> member]

Returned(x) == [raised |-> "none", val |-> x]
Raised(e) == [raised |-> e, val |-> None]

UpperCase == <<"A", "B", "C", "D", "E", "F", "G", "H", "I", "J", "K", "L", "M",
               "N", "O", "P", "Q", "R", "S", "T", "U", "V", "W", "X", "Y", "Z">>
LowerCase == <<"a", "b", "c", "d", "e", "f", "g", "h", "i", "j", "k", "l", "m",
               "n", "o", "p", "q", "r", "s", "t", "u", "v", "w", "x", "y", "z">>

\* str.lower(), character by character.
lower_char(c) ==
    IF \E k \in 1..26 : UpperCase[k] = c
    THEN LowerCase[CHOOSE k \in 1..26 : UpperCase[k] = c]
    ELSE c

lower(cs) == [k \in 1..Len(cs) |-> lower_char(cs[k])]

DigitChar(d) == CHOOSE c \in Digits : DigitVal(c) = d

\* str(n) of a natural number, and of an integer.
RECURSIVE nat_str(_)
nat_str(n) == IF n < 10 THEN <<DigitChar(n)>>
              ELSE nat_str(n \div 10) \o <<DigitChar(n % 10)>>

int_str(n) == IF n < 0 THEN <<"-">> \o nat_str(-n) ELSE nat_str(n)

\* An optional sign followed by digits only: what int(str) accepts here.
is_int_literal(cs) ==
    LET body == IF cs # <<>> /\ cs[1] \in {"-", "+"} THEN Tail(cs) ELSE cs
    IN  body # <<>> /\ \A k \in 1..Len(body) : body[k] \in Digits

int_literal(cs) ==
    IF cs[1] = "-" THEN -int_digits(Tail(cs))
    ELSE IF cs[1] = "+" THEN int_digits(Tail(cs))
    ELSE int_digits(cs)

\* Truncation toward zero of a number given in tenths.
trunc_tenths(tenths) == IF tenths < 0 THEN -((-tenths) \div 10) ELSE tenths \div 10

\* int(x) for x not None.
py_int(x) ==
    CASE x.t = "int" -> Returned(x)
      [] x.t = "float" ->
            IF x.v.cls = "inf" THEN Raised("OverflowError")
            ELSE IF x.v.cls = "nan" THEN Raised("ValueError")
            ELSE Returned(PyInt(trunc_tenths(x.v.tenths)))
      [] x.t = "str" ->
            IF is_int_literal(x.v) THEN Returned(PyInt(int_literal(x.v)))
            ELSE Raised("ValueError")
      [] OTHER -> Raised("TypeError")

\* digits '.' digit: the decimal literals of the model's floats.
is_decimal_literal(cs) ==
    /\ Len(cs) >= 3
    /\ cs[Len(cs) - 1] = "."
    /\ cs[Len(cs)] \in Digits
    /\ is_int_literal(SubSeq(cs, 1, Len(cs) - 2))

decimal_literal(cs) ==
    LET whole == SubSeq(cs, 1, Len(cs) - 2)
        frac == DigitVal(cs[Len(cs)])
    IN  IF whole[1] = "-" THEN 10 * int_literal(whole) - frac
        ELSE 10 * int_literal(whole) + frac

\* float(x) for x not None.
py_float(x) ==
    CASE x.t = "float" -> Returned(x)
      [] x.t = "int" -> Returned(PyFloat(10 * x.v))
      [] x.t = "str" ->
            IF is_int_literal(x.v) THEN Returned(PyFloat(10 * int_literal(x.v)))
            ELSE IF is_decimal_literal(x.v) THEN Returned(PyFloat(decimal_literal(x.v)))
            ELSE IF lower(x.v) = <<"i", "n", "f">> THEN Returned(FloatInf)
            ELSE IF lower(x.v) = <<"n", "a", "n">> THEN Returned(FloatNaN)
            ELSE Raised("ValueError")
      [] OTHER -> Raised("TypeError")

RECURSIVE array_str(_)
array_str(ns) ==
    IF ns = <<>> THEN <<>>
    ELSE int_str(Head(ns)) \o (IF Len(ns) > 1 THEN <<" ">> ELSE <<>>)
         \o array_str(Tail(ns))

\* str(x) for x not None.
py_str(x) ==
    CASE x.t = "str" -> Returned(x)
      [] x.t = "int" -> Returned(PyStr(int_str(x.v)))
      [] x.t = "float" ->
            IF x.v.cls = "inf" THEN Returned(PyStr(<<"i", "n", "f">>))
            ELSE IF x.v.cls = "nan" THEN Returned(PyStr(<<"n", "a", "n">>))
            ELSE Returned(PyStr(
                    (IF x.v.tenths < 0 THEN <<"-">> ELSE <<>>)
                    \o nat_str(trunc_tenths(IF x.v.tenths < 0 THEN -x.v.tenths
                                             ELSE x.v.tenths))
                    \o <<".">>
                    \o <<DigitChar((IF x.v.tenths < 0 THEN -x.v.tenths
                                    ELSE x.v.tenths) % 10)>>))
      [] x.t = "array" -> Returned(PyStr(<<"[">> \o array_str(x.v) \o <<"]">>))
      [] OTHER -> Returned(PyStr(x.v))

(***************************************************************************)
(* models.py: State and ConfigurationMeta                                  *)
(***************************************************************************)
txt_solid == <<"s", "o", "l", "i", "d">>
txt_liquid == <<"l", "i", "q", "u", "i", "d">>
txt_ambiguous == <<"a", "m", "b", "i", "g", "u", "o", "u", "s">>

\* The members of State and the string each carries.
State == {"SOLID", "LIQUID", "AMBIGUOUS"}

State_value(member) ==
    CASE member = "SOLID" -> txt_solid
      [] member = "LIQUID" -> txt_liquid
      [] member = "AMBIGUOUS" -> txt_ambiguous

IntFields == {"config_number", "pressure", "temperature", "timestep", "QMC_quality"}
FloatFields == {"rs", "molecular_percentage", "energy", "electron_kinetic_energy",
                "potential_energy", "fsc_potential_energy", "fsc_kinetic_energy"}
StrFields == {"uuid", "MD_type", "method", "code", "modelname", "simulation_type",
              "config_gen_date", "author", "qmc_machine", "QMC_run_date"}

\* ConfigurationMeta.model_fields
model_fields == IntFields \cup FloatFields \cup StrFields \cup {"state"}

\* Every field defaults to None.
meta_defaults == [f \in model_fields |-> None]

\* The type ConfigurationMeta declares for a field accepts the value.
field_accepts(f, x) ==
    \/ x = None
    \/ f = "state" /\ x.t = "State" /\ x.v \in State
    \/ f \in IntFields /\ x.t = "int"
    \/ f \in FloatFields /\ x.t \in {"float", "int"}
    \/ f \in StrFields /\ x.t = "str"

\* ConfigurationMeta(**meta_dict): validation, an int given to a float field
\* becoming a float.
ConfigurationMeta(meta_dict) ==
    IF \A f \in model_fields : field_accepts(f, meta_dict[f])
    THEN [raised |-> "none",
          meta |-> [f \in model_fields |->
                      IF f \in FloatFields /\ meta_dict[f].t = "int"
                      THEN PyFloat(10 * meta_dict[f].v) ELSE meta_dict[f]]]
    ELSE [raised |-> "ValidationError", meta |-> meta_defaults]

(***************************************************************************)
(* configuration.py: parse_xyz_header, from the info map the structure     *)
(* file reader returned: a sequence of [key, value] in the map's order,    *)
(* keys distinct.                                                          *)
(***************************************************************************)

\* An alias table that lacks the hyphenated names.
field_mapping_no_hyphen(info_key) ==
    CASE info_key = "config" -> "config_number"
      [] info_key = "phase" -> "state"
      [] info_key = "fsc_dv_ev" -> "fsc_potential_energy"
      [] info_key = "fsc_dt_ev" -> "fsc_kinetic_energy"
      [] OTHER -> info_key

\* field_mapping.get(info_key, info_key)
field_mapping_get(info_key) ==
    CASE info_key = "config" -> "config_number"
      [] info_key = "phase" -> "state"
      [] info_key = "QMC-run-date" -> "QMC_run_date"
      [] info_key = "QMC-quality" -> "QMC_quality"
      [] info_key = "simulation-type" -> "simulation_type"
      [] info_key = "fsc_dv_ev" -> "fsc_potential_energy"
      [] info_key = "fsc_dt_ev" -> "fsc_kinetic_energy"
      [] OTHER -> info_key

\* A state conversion that compares without lower-casing.
convert_state_case_sensitive(info_value) ==
    IF info_value.t = "str"
    THEN IF info_value.v = txt_solid THEN Returned(PyEnum("SOLID"))
         ELSE IF info_value.v = txt_liquid THEN Returned(PyEnum("LIQUID"))
         ELSE IF info_value.v = txt_ambiguous THEN Returned(PyEnum("AMBIGUOUS"))
         ELSE Returned(None)
    ELSE Returned(None)

\* The 'state' branch of the conversion.
convert_state(info_value) ==
    IF info_value.t = "str"
    THEN LET phase_lower == lower(info_value.v)
         IN  IF phase_lower = txt_solid THEN Returned(PyEnum("SOLID"))
             ELSE IF phase_lower = txt_liquid THEN Returned(PyEnum("LIQUID"))
             ELSE IF phase_lower = txt_ambiguous THEN Returned(PyEnum("AMBIGUOUS"))
             ELSE Returned(None)
    ELSE Returned(None)

\* The body of the try: the value to store under meta_key, or what it raises.
convert(meta_key, info_value) ==
    IF meta_key = "state" THEN convert_state(info_value)
    ELSE IF info_value = None THEN Returned(None)
    ELSE IF meta_key \in {"config_number", "pressure", "temperature", "timestep",
                          "QMC_quality"}
         THEN py_int(info_value)
    ELSE IF meta_key \in {"rs", "molecular_percentage", "energy",
                          "electron_kinetic_energy", "potential_energy",
                          "fsc_potential_energy", "fsc_kinetic_energy"}
         THEN py_float(info_value)
    ELSE py_str(info_value)

\* except (ValueError, TypeError, AttributeError): continue
caught_in_loop == {"ValueError", "TypeError", "AttributeError"}

\* The for loop over info.items(), from entry i on.
RECURSIVE header_loop(_, _, _)
header_loop(inf, i, meta_dict) ==
    IF i > Len(inf) THEN [raised |-> "none", meta_dict |-> meta_dict]
    ELSE LET info_key == inf[i].key
             info_value == inf[i].value
             meta_key == field_mapping_get(info_key)
         IN  IF meta_key \notin model_fields
             THEN header_loop(inf, i + 1, meta_dict)
             ELSE LET c == convert(meta_key, info_value)
                  IN  IF c.raised = "none"
                      THEN header_loop(inf, i + 1,
                                       [meta_dict EXCEPT ![meta_key] = c.val])
                      ELSE IF c.raised \in caught_in_loop
                      THEN header_loop(inf, i + 1, meta_dict)
                      ELSE [raised |-> c.raised, meta_dict |-> meta_dict]

parse_xyz_header(inf) ==
    LET looped == header_loop(inf, 1, meta_defaults)
    IN  IF looped.raised # "none"
        THEN [raised |-> looped.raised, meta |-> meta_defaults]
        ELSE ConfigurationMeta(looped.meta_dict)

PendingMeta == [raised |-> "pending", meta |-> meta_defaults]

(***************************************************************************)
(* Files.  A path is a directory (its components) and a file name (text).  *)
(* The file system maps each path to NoFile or to a file: its bytes (ASCII *)
(* here) and, for a structure file, the info map the reader yields.        *)
(***************************************************************************)
Path(dir, name) == [dir |-> dir, name |-> name]
PathValue(p) == [t |-> "path", v |-> p]

NoFile == [exists |-> FALSE, bytes |-> <<>>, info |-> <<>>]
File(bytes, inf) == [exists |-> TRUE, bytes |-> bytes, info |-> inf]

\* Path.exists()
path_exists(files, p) == p \in DOMAIN files /\ files[p].exists

max_of(S) == CHOOSE m \in S : \A k \in S : k <= m

\* A stem that keeps the whole name.
stem_keeps_suffix(name) == name

\* PurePath.stem: the name up to its last dot, when that dot is neither the
\* first nor the last character.
stem(name) ==
    LET dots == {k \in 1..Len(name) : name[k] = "."}
    IN  IF dots = {} THEN name
        ELSE IF 1 < max_of(dots) /\ max_of(dots) < Len(name)
             THEN SubSeq(name, 1, max_of(dots) - 1)
             ELSE name

suffix_sofk == <<"_", "s", "o", "f", "k", ".", "t", "x", "t">>
suffix_gofr == <<"_", "g", "o", "f", "r", ".", "t", "x", "t">>
suffix_sk == <<".", "s", "k">>

\* Configuration._find_related_file
find_related_file(files, xyz, suffix) ==
    LET xyz_dir == xyz.dir
        xyz_stem == stem(xyz.name)
        file_path == IF suffix = suffix_sk
                     THEN Path(xyz_dir, xyz_stem \o <<".", "s", "k">>)
                     ELSE Path(xyz_dir, xyz_stem \o suffix)
    IN  IF path_exists(files, file_path) THEN PathValue(file_path) ELSE None

NoCfg == [constructed |-> FALSE, xyz_path |-> Path(<<>>, <<>>), meta |-> meta_defaults,
          sofk_txt_path |-> None, gofr_txt_path |-> None, sk_path |-> None]

\* ase.io.read followed by parse_xyz_header's own work: the reader fails on a
\* missing file and otherwise yields the file's info map.
read_and_parse(files, xyz) ==
    IF ~path_exists(files, xyz)
    THEN [raised |-> "FileNotFoundError", meta |-> meta_defaults]
    ELSE parse_xyz_header(files[xyz].info)

\* Configuration.__init__(xyz_path)
Configuration_init(files, xyz) ==
    LET parsed == read_and_parse(files, xyz)
    IN  IF parsed.raised # "none" THEN [raised |-> parsed.raised, obj |-> NoCfg]
        ELSE [raised |-> "none",
              obj |-> [constructed |-> TRUE,
                       xyz_path |-> xyz,
                       meta |-> parsed.meta,
                       sofk_txt_path |-> find_related_file(files, xyz, suffix_sofk),
                       gofr_txt_path |-> find_related_file(files, xyz, suffix_gofr),
                       sk_path |-> find_related_file(files, xyz, suffix_sk)]]

\* How an f-string renders a pressure, temperature or config number.
format_field(x) ==
    IF x = None THEN <<"N", "o", "n", "e">> ELSE int_str(x.v)

\* A file name that leaves the config number out.
hdf5_filename_no_config(c) ==
    <<"P">> \o format_field(c.meta["pressure"])
    \o <<"T">> \o format_field(c.meta["temperature"])
    \o <<".", "h", "d", "f", "5">>

\* Configuration.hdf5_filename
hdf5_filename(c) ==
    <<"P">> \o format_field(c.meta["pressure"])
    \o <<"T">> \o format_field(c.meta["temperature"])
    \o <<"_", "c", "o", "n", "f", "i", "g", "_">>
    \o format_field(c.meta["config_number"])
    \o <<".", "h", "d", "f", "5">>

\* Configuration.s3_key
s3_key(c) ==
    <<"P">> \o format_field(c.meta["pressure"]) \o <<"/">>
    \o <<"T">> \o format_field(c.meta["temperature"]) \o <<"/">>
    \o hdf5_filename(c)

\* create: the key the upload uses, given the PREFIX of the environment.
upload_key(prefix, c) ==
    IF prefix # <<>> THEN prefix \o <<"/">> \o s3_key(c) ELSE s3_key(c)

(***************************************************************************)
(* The archive: root attributes (a map from the names present) and         *)
(* entries (a map from the entry names present to bytes).                  *)
(***************************************************************************)
EmptyMap == [k \in {} |-> None]

NoArchive == [exists |-> FALSE, attrs |-> EmptyMap, entries |-> EmptyMap]

map_put(m, k, x) == [j \in DOMAIN m \cup {k} |-> IF j = k THEN x ELSE m[j]]

\* Opening in append mode: what is there stays.
h5py_File_a(old) ==
    IF old.exists THEN old
    ELSE [exists |-> TRUE, attrs |-> EmptyMap, entries |-> EmptyMap]

\* h5py.File(hdf5_path, "w"): a new, empty file in place of whatever was there.
h5py_File_w(old) == [exists |-> TRUE, attrs |-> EmptyMap, entries |-> EmptyMap]

\* A test by truth value, which also skips 0, 0.0 and ''.
attr_written_if_truthy(value) ==
    /\ value # None
    /\ value.t = "int" => value.v # 0
    /\ value.t = "float" => ~(value.v.cls = "finite" /\ value.v.tenths = 0)
    /\ value.t = "str" => value.v # <<>>

\* if value is not None
attr_written(value) == value # None

\* What is stored under the key: a State as its string, anything else as is.
attr_value(value) ==
    IF value.t = "State" THEN PyStr(State_value(value.v)) ELSE value

\* The loop over meta_dict.items().
write_attrs(arch, meta) ==
    [arch EXCEPT !.attrs =
        [k \in DOMAIN arch.attrs \cup {f \in model_fields : attr_written(meta[f])} |->
            IF k \in model_fields /\ attr_written(meta[k])
            THEN attr_value(meta[k]) ELSE arch.attrs[k]]]

\* The decoding of a file opened with "r" where the preferred encoding is
\* UTF-8: the two bytes C3 A9 are one character, an ASCII byte is itself.
\* The files of the model hold well-formed UTF-8 only.
RECURSIVE decode_utf8(_)
decode_utf8(bytes) ==
    IF bytes = <<>> THEN <<>>
    ELSE IF Head(bytes) = "xC3" /\ Len(bytes) > 1 /\ bytes[2] = "xA9"
         THEN <<"e_acute">> \o decode_utf8(Tail(Tail(bytes)))
         ELSE <<Head(bytes)>> \o decode_utf8(Tail(bytes))

\* Universal newlines: '\r\n' and a lone '\r' become '\n'.
RECURSIVE universal_newlines(_)
universal_newlines(text) ==
    IF text = <<>> THEN <<>>
    ELSE IF Head(text) = "\r"
         THEN IF Len(text) > 1 /\ text[2] = "\n"
              THEN <<"\n">> \o universal_newlines(Tail(Tail(text)))
              ELSE <<"\n">> \o universal_newlines(Tail(text))
         ELSE <<Head(text)>> \o universal_newlines(Tail(text))

\* file.read() of a file opened with "r".
read_text(bytes) == universal_newlines(decode_utf8(bytes))

\* text.encode('utf-8'): two bytes for the accented character, one for an
\* ASCII character.
encode_utf8(text) ==
    Flatten([k \in 1..Len(text) |->
                IF text[k] = "e_acute" THEN <<"xC3", "xA9">> ELSE <<text[k]>>])

\* with open(path, "r") as f: create_dataset(name, data=f.read().encode('utf-8')),
\* on the outcome acc of the steps before it.
write_dataset(acc, files, p, name) ==
    IF acc.raised # "none" THEN acc
    ELSE IF ~path_exists(files, p)
         THEN [raised |-> "FileNotFoundError", archive |-> acc.archive]
         ELSE [raised |-> "none",
               archive |-> [acc.archive EXCEPT !.entries =
                    map_put(acc.archive.entries, name,
                            encode_utf8(read_text(files[p].bytes)))]]

\* if self.<companion>_path: ...
write_companion(acc, files, opt_path, name) ==
    IF opt_path = None THEN acc ELSE write_dataset(acc, files, opt_path.v, name)

\* Configuration.save_to_hdf5: the outcome and the archive left at hdf5_path.
save_to_hdf5(c, files, old) ==
    LET opened == write_attrs(h5py_File_w(old), c.meta)
        xyz == write_dataset([raised |-> "none", archive |-> opened],
                             files, c.xyz_path, "xyz_data")
        sofk == write_companion(xyz, files, c.sofk_txt_path, "sofk_data")
        gofr == write_companion(sofk, files, c.gofr_txt_path, "gofr_data")
    IN  write_companion(gofr, files, c.sk_path, "electronic_sk_data")

\* Configuration.read_hdf5_attributes: dict(h5f.attrs) of the stored archive.
read_hdf5_attributes(arch) ==
    IF ~arch.exists THEN [raised |-> "FileNotFoundError", value |-> EmptyMap]
    ELSE [raised |-> "none", value |-> arch.attrs]

Started == [op |-> "start", raised |-> "none", value |-> EmptyMap]

\* The archive state of the specifications that do not use it.
ArchiveIdle ==
    /\ fs = [p \in {} |-> NoFile]
    /\ xyz_path = Path(<<>>, <<>>)
    /\ cfg = NoCfg
    /\ archive = NoArchive
    /\ last = Started
    /\ saved_by = NoCfg

(***************************************************************************)
(* Specification of the name parser: every run_dir built from at most      *)
(* MaxFrags fragments, then one call.                                      *)
(***************************************************************************)
MaxFrags == 4

NameFrags ==
    {lit \o ds : lit \in {lit_P, lit_T, lit_config},
                 ds \in {<<>>, <<"1">>, <<"0", "5">>}}
    \cup {<<"/">>, <<"x">>, <<"1">>}

RunDirs == {Flatten(frags) : frags \in UNION {[1..n -> NameFrags] : n \in 0..MaxFrags}}

InitName ==
    /\ run_dir \in RunDirs
    /\ extract_out = Pending
    /\ info = <<>>
    /\ meta_out = PendingMeta
    /\ ArchiveIdle
    /\ CliIdle
    /\ CoreIdle

ExtractRunParameters ==
    /\ extract_out = Pending
    /\ extract_out' = extract_run_parameters(run_dir)
    /\ UNCHANGED <<run_dir, header_vars, archive_vars, cli_vars, core_vars>>

NextName == ExtractRunParameters

SpecName == InitName /\ [][NextName]_vars

(***************************************************************************)
(* C1.  extract_run_parameters looks only at the final path component and  *)
(* returns the three integers that follow the leftmost 'P', 'T' and        *)
(* 'config' that are followed by digits; when one of the three has no such *)
(* occurrence it raises the malformed-name error (ValueError) and returns  *)
(* nothing.  The expected outcome is stated without the scan: by the       *)
(* positions of the name.                                                  *)
(***************************************************************************)
C1_Max(S) == CHOOSE m \in S : \A k \in S : k <= m
C1_Min(S) == CHOOSE m \in S : \A k \in S : m <= k

\* The final component: the slash-free stretch that ends at the last
\* character that is not a slash.
C1_FinalComponent(rd) ==
    LET body == {k \in 1..Len(rd) : rd[k] # "/"}
    IN  IF body = {} THEN <<>>
        ELSE LET j == C1_Max(body)
                 i == C1_Min({k \in 1..j : \A m \in k..j : rd[m] # "/"})
             IN  SubSeq(rd, i, j)

\* Positions of n where lit stands, followed by at least one digit.
C1_Occurrences(lit, n) ==
    {i \in 1..Len(n) :
        /\ i + Len(lit) <= Len(n)
        /\ \A k \in 1..Len(lit) : n[i + k - 1] = lit[k]
        /\ n[i + Len(lit)] \in Digits}

RECURSIVE C1_Pow10(_)
C1_Pow10(k) == IF k = 0 THEN 1 ELSE 10 * C1_Pow10(k - 1)

RECURSIVE C1_Sum(_, _, _)
C1_Sum(n, a, b) ==
    IF a > b THEN 0 ELSE DigitVal(n[a]) * C1_Pow10(b - a) + C1_Sum(n, a + 1, b)

\* The integer after the leftmost occurrence: its digits run to the last
\* position from which everything back to the first digit is a digit.
C1_Integer(lit, n) ==
    LET a == C1_Min(C1_Occurrences(lit, n)) + Len(lit)
        b == C1_Max({e \in a..Len(n) : \A m \in a..e : n[m] \in Digits})
    IN  C1_Sum(n, a, b)

C1_Expected(rd) ==
    LET n == C1_FinalComponent(rd)
    IN  IF \E lit \in {lit_P, lit_T, lit_config} : C1_Occurrences(lit, n) = {}
        THEN [raised |-> "ValueError", value |-> <<>>]
        ELSE [raised |-> "none",
              value |-> <<C1_Integer(lit_P, n), C1_Integer(lit_T, n),
                          C1_Integer(lit_config, n)>>]

C1_ExtractRunParameters ==
    extract_out # Pending => extract_out = C1_Expected(run_dir)

\* A name with two 'P<digits>', the first one several digits long with a
\* leading zero, was parsed.
C1_Witness ==
    /\ extract_out.raised = "none"
    /\ Cardinality(C1_Occurrences(lit_P, C1_FinalComponent(run_dir))) >= 2
    /\ extract_out.value = <<5, 1, 1>>

(***************************************************************************)
(* Specification of the header resolver: every header map of at most       *)
(* MaxInfo entries with distinct keys, then one call.  The keys are the    *)
(* seven aliases, canonical names and names that are no field; each key    *)
(* takes the values that exercise its conversion.                          *)
(***************************************************************************)
MaxInfo == 2

txt_abc == <<"a", "b", "c">>

StateTexts ==
    {txt_solid, <<"S", "o", "l", "i", "d">>, <<"L", "I", "Q", "U", "I", "D">>,
     <<"a", "M", "b", "I", "g", "U", "o", "U", "s">>,
     <<"m", "o", "l", "t", "e", "n">>, <<"s", "o", "l", "i", "d", "s">>}

InfoKeys == {"config", "phase", "QMC-run-date", "QMC-quality", "simulation-type",
             "fsc_dv_ev", "fsc_dt_ev", "state", "pressure", "config_number",
             "comment", "Phase"}

InfoValues(k) ==
    CASE k \in {"phase", "state"} ->
            {PyStr(t) : t \in StateTexts} \cup {PyInt(1), None}
      [] k \in {"config", "QMC-quality", "pressure"} ->
            {PyInt(60), PyFloat(-25), FloatInf, FloatNaN, PyStr(<<"1", "2">>),
             PyStr(txt_abc), None, PyArray(<<1, 2>>)}
      [] k = "config_number" -> {PyInt(7), PyStr(txt_abc)}
      [] k \in {"fsc_dv_ev", "fsc_dt_ev"} ->
            {PyFloat(15), PyInt(60), PyStr(<<"1", ".", "5">>), PyStr(txt_abc),
             PyArray(<<1, 2>>)}
      [] k \in {"QMC-run-date", "simulation-type"} -> {PyStr(txt_abc), PyInt(60)}
      [] OTHER -> {PyStr(txt_abc), FloatInf}

InfoEntries == UNION {{[key |-> k, value |-> v] : v \in InfoValues(k)} : k \in InfoKeys}

InfoMaps ==
    {m \in UNION {[1..n -> InfoEntries] : n \in 0..MaxInfo} :
        \A i, j \in 1..Len(m) : i # j => m[i].key # m[j].key}

InitHeader ==
    /\ info \in InfoMaps
    /\ meta_out = PendingMeta
    /\ run_dir = <<>>
    /\ extract_out = Pending
    /\ ArchiveIdle
    /\ CliIdle
    /\ CoreIdle

ParseXyzHeader ==
    /\ meta_out = PendingMeta
    /\ meta_out' = parse_xyz_header(info)
    /\ UNCHANGED <<info, name_vars, archive_vars, cli_vars, core_vars>>

NextHeader == ParseXyzHeader

SpecHeader == InitHeader /\ [][NextHeader]_vars

(***************************************************************************)
(* C2.  parse_xyz_header renames each key through the alias table          *)
(* (config, phase, QMC-run-date, QMC-quality, simulation-type, fsc_dv_ev,  *)
(* fsc_dt_ev); a key whose renamed form is no ConfigurationMeta field is   *)
(* dropped without an exception, and the outcome is the one the map has    *)
(* with the unrecognized keys taken out.                                   *)
(***************************************************************************)
C2_Alias ==
    [k \in InfoKeys |->
        CASE k = "config" -> "config_number"
          [] k = "phase" -> "state"
          [] k = "QMC-run-date" -> "QMC_run_date"
          [] k = "QMC-quality" -> "QMC_quality"
          [] k = "simulation-type" -> "simulation_type"
          [] k = "fsc_dv_ev" -> "fsc_potential_energy"
          [] k = "fsc_dt_ev" -> "fsc_kinetic_energy"
          [] OTHER -> k]

C2_Recognized(e) == C2_Alias[e.key] \in model_fields

\* Entry i is the only one of the map that names its field.
C2_Alone(inf, i) ==
    \A j \in 1..Len(inf) : j # i => C2_Alias[inf[j].key] # C2_Alias[inf[i].key]

C2_UnrecognizedKeysDropped ==
    meta_out # PendingMeta =>
        /\ meta_out = parse_xyz_header(SelectSeq(info, C2_Recognized))
        /\ (\A i \in 1..Len(info) : ~C2_Recognized(info[i])) =>
                meta_out = [raised |-> "none", meta |-> meta_defaults]
        /\ meta_out.raised = "none" =>
             /\ \A i \in 1..Len(info) :
                    LET f == C2_Alias[info[i].key]
                        c == convert(f, info[i].value)
                    IN  C2_Recognized(info[i]) /\ C2_Alone(info, i) /\ c.raised = "none"
                            => meta_out.meta[f] = c.val
             /\ \A f \in model_fields :
                    (\A i \in 1..Len(info) : C2_Alias[info[i].key] # f)
                        => meta_out.meta[f] = None

\* A hyphenated alias and a key that is no field were resolved together.
C2_Witness ==
    /\ meta_out.raised = "none"
    /\ \E i, j \in 1..Len(info) :
          /\ ~C2_Recognized(info[i])
          /\ info[j].key = "QMC-quality"
          /\ meta_out.meta["QMC_quality"] = PyInt(60)

(***************************************************************************)
(* C3.  The state coercion is case-insensitive and total: any casing of    *)
(* 'solid', 'liquid', 'ambiguous' under 'phase' or 'state' gives the       *)
(* matching State member, any other value (another string, a non-string)   *)
(* gives no state, the state entry never makes the call raise, and a state *)
(* that is present is a State member.                                      *)
(***************************************************************************)
C3_IsCasingOf(cs, word) ==
    /\ Len(cs) = Len(word)
    /\ \A k \in 1..Len(word) :
          \/ cs[k] = word[k]
          \/ \E a \in 1..26 : LowerCase[a] = word[k] /\ UpperCase[a] = cs[k]

C3_Expected(x) ==
    IF x.t # "str" THEN None
    ELSE IF C3_IsCasingOf(x.v, txt_solid) THEN PyEnum("SOLID")
    ELSE IF C3_IsCasingOf(x.v, txt_liquid) THEN PyEnum("LIQUID")
    ELSE IF C3_IsCasingOf(x.v, txt_ambiguous) THEN PyEnum("AMBIGUOUS")
    ELSE None

C3_IsStateEntry(e) == e.key \in {"phase", "state"}
C3_NotStateEntry(e) == ~C3_IsStateEntry(e)

C3_StateCoercionTotal ==
    meta_out # PendingMeta =>
        /\ meta_out.raised = "none" =>
             /\ \A i \in 1..Len(info) :
                    /\ C3_IsStateEntry(info[i])
                    /\ \A j \in (i + 1)..Len(info) : ~C3_IsStateEntry(info[j])
                    => meta_out.meta["state"] = C3_Expected(info[i].value)
             /\ \/ meta_out.meta["state"] = None
                \/ meta_out.meta["state"] \in {PyEnum(m) : m \in {"SOLID", "LIQUID", "AMBIGUOUS"}}
        /\ meta_out.raised # "none" =>
             parse_xyz_header(SelectSeq(info, C3_NotStateEntry)).raised = meta_out.raised

\* A mixed-case phase gave its State member.
C3_Witness ==
    /\ meta_out.raised = "none"
    /\ \E i \in 1..Len(info) :
          /\ info[i].key = "phase"
          /\ info[i].value = PyStr(<<"a", "M", "b", "I", "g", "U", "o", "U", "s">>)
    /\ meta_out.meta["state"] = PyEnum("AMBIGUOUS")

(***************************************************************************)
(* C4.  A coercion failure on one recognized key never aborts the          *)
(* resolution: parse_xyz_header returns a record in which the failing      *)
(* key's field is absent and every other recognized key's field holds its  *)
(* coerced value.                                                          *)
(***************************************************************************)
C4_CoercionFailureSwallowed ==
    meta_out # PendingMeta =>
        /\ meta_out.raised = "none"
        /\ \A i \in 1..Len(info) :
                LET f == C2_Alias[info[i].key]
                    c == convert(f, info[i].value)
                IN  C2_Recognized(info[i]) /\ C2_Alone(info, i)
                        => meta_out.meta[f] = IF c.raised = "none" THEN c.val ELSE None

(***************************************************************************)
(* Specification of the archive writer.  One structure file, present       *)
(* throughout, with one of four headers; its three companions come and go  *)
(* on disk; the output path starts empty or with an older archive.         *)
(* Construction, save_to_hdf5 and read_hdf5_attributes are called in any   *)
(* order.                                                                  *)
(***************************************************************************)
txt_configs == <<"c", "f", "g", "s">>
txt_P150 == <<"P", "1", "5", "0">>
txt_T2000 == <<"T", "2", "0", "0", "0">>
txt_P150T2000_config_60 ==
    txt_P150 \o txt_T2000 \o <<"_", "c", "o", "n", "f", "i", "g", "_", "6", "0">>

TheXyzDir == <<txt_configs, txt_P150, txt_T2000>>
TheXyzPath == Path(TheXyzDir, txt_P150T2000_config_60 \o <<".", "x", "y", "z">>)

CompanionPaths ==
    {Path(TheXyzDir, txt_P150T2000_config_60 \o sfx) :
        sfx \in {suffix_sofk, suffix_gofr, suffix_sk}}

H(k, x) == [key |-> k, value |-> x]

PrimaryFiles ==
    {File(<<"2", "\n", "H", "\n">>,
          <<H("config", PyInt(60)), H("phase", PyStr(<<"S", "o", "l", "i", "d">>)),
            H("pressure", PyInt(150)), H("temperature", PyInt(2000))>>),
     File(<<"2", "\r", "\n", "H", "\r", "\n">>,
          <<H("pressure", PyInt(0)), H("fsc_dv_ev", PyFloat(-136)),
            H("author", PyStr(<<>>)), H("comment", PyStr(txt_abc))>>),
     File(<<"2", "\n", "H", "\n">>, <<>>),
     File(<<"2", "\n", "H", "\n">>,
          <<H("config", PyInt(60)), H("pressure", FloatInf)>>)}

CompanionBytes == {<<"xC3", "xA9", "\n">>, <<"b", "\r", "c">>}

\* An archive of some earlier run found at the output path.
OlderArchive ==
    [exists |-> TRUE,
     attrs |-> ("legacy" :> PyStr(txt_abc)) @@ ("uuid" :> PyStr(txt_abc))
               @@ ("pressure" :> PyInt(1)),
     entries |-> ("old_data" :> <<"z">>) @@ ("sofk_data" :> <<"z">>)]

Init ==
    /\ run_dir = <<>>
    /\ extract_out = Pending
    /\ info = <<>>
    /\ meta_out = PendingMeta
    /\ xyz_path = TheXyzPath
    /\ fs \in [CompanionPaths \cup {TheXyzPath} ->
                  PrimaryFiles \cup {NoFile} \cup {File(b, <<>>) : b \in CompanionBytes}]
    /\ fs[TheXyzPath] \in PrimaryFiles
    /\ \A p \in CompanionPaths : fs[p] \notin PrimaryFiles
    /\ cfg = NoCfg
    /\ archive \in {NoArchive, OlderArchive}
    /\ last = Started
    /\ saved_by = NoCfg
    /\ CliIdle
    /\ CoreIdle

\* config = Configuration(xyz_path)
Construct ==
    LET r == Configuration_init(fs, xyz_path)
    IN  /\ cfg' = IF r.raised = "none" THEN r.obj ELSE cfg
        /\ last' = [op |-> "init", raised |-> r.raised, value |-> EmptyMap]
        /\ UNCHANGED <<fs, xyz_path, archive, saved_by, name_vars, header_vars,
                     cli_vars, core_vars>>

\* config.save_to_hdf5(hdf5_path)
SaveToHdf5 ==
    /\ cfg.constructed
    /\ LET r == save_to_hdf5(cfg, fs, archive)
       IN  /\ archive' = r.archive
           /\ last' = [op |-> "save", raised |-> r.raised, value |-> EmptyMap]
    /\ saved_by' = cfg
    /\ UNCHANGED <<fs, xyz_path, cfg, name_vars, header_vars,
                     cli_vars, core_vars>>

\* Configuration.read_hdf5_attributes on the stored archive
ReadHdf5Attributes ==
    LET r == read_hdf5_attributes(archive)
    IN  /\ last' = [op |-> "read", raised |-> r.raised, value |-> r.value]
        /\ UNCHANGED <<fs, xyz_path, cfg, archive, saved_by, name_vars, header_vars,
                     cli_vars, core_vars>>

\* Somebody writes a companion file.
EnvWrite ==
    \E p \in CompanionPaths, b \in CompanionBytes :
        /\ fs' = [fs EXCEPT ![p] = File(b, <<>>)]
        /\ last' = [op |-> "env", raised |-> "none", value |-> EmptyMap]
        /\ UNCHANGED <<xyz_path, cfg, archive, saved_by, name_vars, header_vars,
                     cli_vars, core_vars>>

\* Somebody removes a companion file.
EnvRemove ==
    \E p \in CompanionPaths :
        /\ fs[p].exists
        /\ fs' = [fs EXCEPT ![p] = NoFile]
        /\ last' = [op |-> "env", raised |-> "none", value |-> EmptyMap]
        /\ UNCHANGED <<xyz_path, cfg, archive, saved_by, name_vars, header_vars,
                     cli_vars, core_vars>>

Next ==
    \/ Construct
    \/ SaveToHdf5
    \/ ReadHdf5Attributes
    \/ EnvWrite
    \/ EnvRemove

Spec == Init /\ [][Next]_vars

(***************************************************************************)
(* C5.  Attribute round trip: the attributes read back from an archive     *)
(* that save_to_hdf5 wrote have as keys exactly the names of the fields of *)
(* the record that are not absent, each with the field's value, a state as *)
(* its string tag.                                                         *)
(***************************************************************************)
C5_Tag(member) ==
    CASE member = "SOLID" -> <<"s", "o", "l", "i", "d">>
      [] member = "LIQUID" -> <<"l", "i", "q", "u", "i", "d">>
      [] member = "AMBIGUOUS" -> <<"a", "m", "b", "i", "g", "u", "o", "u", "s">>

C5_ExpectedAttrs(meta) ==
    [k \in {f \in model_fields : meta[f] # None} |->
        IF k = "state" THEN PyStr(C5_Tag(meta[k].v)) ELSE meta[k]]

C6_Found(c) ==
    {n \in {"sofk_data", "gofr_data", "electronic_sk_data"} :
        \/ n = "sofk_data" /\ c.sofk_txt_path # None
        \/ n = "gofr_data" /\ c.gofr_txt_path # None
        \/ n = "electronic_sk_data" /\ c.sk_path # None}

C6_PathOf(c, n) ==
    CASE n = "xyz_data" -> c.xyz_path
      [] n = "sofk_data" -> c.sofk_txt_path.v
      [] n = "gofr_data" -> c.gofr_txt_path.v
      [] n = "electronic_sk_data" -> c.sk_path.v

C6_EntriesAreRawText ==
    (last.op = "save" /\ last.raised = "none") =>
        /\ DOMAIN archive.entries = {"xyz_data"} \cup C6_Found(cfg)
        /\ \A n \in DOMAIN archive.entries :
               archive.entries[n] = fs[C6_PathOf(cfg, n)].bytes

(***************************************************************************)
(* C7.  A missing companion file is never an error: with the primary file  *)
(* readable, save_to_hdf5 completes without raising, also when a companion *)
(* found at construction was removed before the save.                      *)
(***************************************************************************)
C7_MissingCompanionNeverRaises ==
    last.op = "save" => last.raised = "none"

(***************************************************************************)
(* C8.  save_to_hdf5 always overwrites: after a successful save the        *)
(* archive holds the attributes and entries of that save and nothing of    *)
(* what was at the path before, so it is the archive the same save leaves  *)
(* at an empty path; and a second save of the same configuration over the  *)
(* first leaves the archive as it is.                                      *)
(***************************************************************************)
C8_SaveOverwrites ==
    /\ [](  (last.op = "save" /\ last.raised = "none") =>
              /\ archive = save_to_hdf5(cfg, fs, NoArchive).archive
              /\ DOMAIN archive.attrs = {f \in model_fields : cfg.meta[f] # None}
              /\ DOMAIN archive.entries = {"xyz_data"} \cup C6_Found(cfg))
    /\ [][ (last.op = "save" /\ last.raised = "none" /\ last'.op = "save")
              => archive' = archive ]_vars

\* A successful save over an older archive that had a pressure, a uuid and a
\* sofk_data entry of its own.
C8_Witness ==
    /\ last.op = "save"
    /\ last.raised = "none"
    /\ cfg.meta["pressure"] = PyInt(0)
    /\ "uuid" \notin DOMAIN archive.attrs
    /\ "sofk_data" \in DOMAIN archive.entries
    /\ archive.entries["sofk_data"] = <<"xC3", "xA9", "\n">>

(***************************************************************************)
(* C9.  hdf5_filename is P<pressure>T<temperature>_config_<number>.hdf5    *)
(* and s3_key is P<pressure>/T<temperature>/<hdf5_filename>, functions of  *)
(* the three fields only; the key of the configuration that wrote the      *)
(* archive is the key of the configuration now, whatever was saved in      *)
(* between; the upload key is the s3_key, with '<PREFIX>/' before it       *)
(* exactly when PREFIX is not empty.                                       *)
(***************************************************************************)
C9_Render(x) ==
    CASE x = None -> <<"N", "o", "n", "e">>
      [] x = PyInt(0) -> <<"0">>
      [] x = PyInt(60) -> <<"6", "0">>
      [] x = PyInt(150) -> <<"1", "5", "0">>
      [] x = PyInt(2000) -> <<"2", "0", "0", "0">>

C9_Filename(pressure, temperature, config_number) ==
    <<"P">> \o C9_Render(pressure) \o <<"T">> \o C9_Render(temperature)
    \o <<"_", "c", "o", "n", "f", "i", "g", "_">> \o C9_Render(config_number)
    \o <<".", "h", "d", "f", "5">>

C9_Key(pressure, temperature, config_number) ==
    <<"P">> \o C9_Render(pressure) \o <<"/", "T">> \o C9_Render(temperature)
    \o <<"/">> \o C9_Filename(pressure, temperature, config_number)

Prefixes == {<<>>, <<"h", "2">>}

SiblingPrimaries ==
    {Path(<<<<"d", "1">>>>, <<"a", ".", "x", "y", "z">>),
     Path(<<<<"d", "1">>>>, <<"a", ".", "b", ".", "x", "y", "z">>)}

Suffixes == {suffix_sofk, suffix_gofr, suffix_sk}

SiblingNames == {<<"a">>, <<"a", ".", "b">>}

SiblingCandidates(xyz) ==
    {Path(xyz.dir, n \o sfx) : n \in SiblingNames, sfx \in Suffixes}
    \cup {Path(xyz.dir, xyz.name \o sfx) : sfx \in Suffixes}
    \cup {Path(<<<<"d", "2">>>>, n \o suffix_sofk) : n \in SiblingNames}

InitSiblings ==
    /\ run_dir = <<>>
    /\ extract_out = Pending
    /\ info = <<>>
    /\ meta_out = PendingMeta
    /\ xyz_path \in SiblingPrimaries
    /\ fs \in [SiblingCandidates(xyz_path) \cup {xyz_path} ->
                  {NoFile, File(<<"a", "\n">>, <<>>)}]
    /\ fs[xyz_path].exists
    /\ cfg = NoCfg
    /\ archive = NoArchive
    /\ last = Started
    /\ saved_by = NoCfg
    /\ CliIdle
    /\ CoreIdle

NextSiblings == Construct

SpecSiblings == InitSiblings /\ [][NextSiblings]_vars

(***************************************************************************)
(* C10.  Sibling discovery for <dir>/<name>.<ext>: the electronic          *)
(* structure companion is looked up in the same directory with the         *)
(* extension replaced by '.sk'; the other two are looked up in the same    *)
(* directory at the name with '_sofk.txt' and '_gofr.txt' appended; each   *)
(* lookup yields the path if and only if a file exists there, whatever the *)
(* other two yield.                                                        *)
(***************************************************************************)
C10_Lookup(dir, name) ==
    IF fs[Path(dir, name)].exists THEN PathValue(Path(dir, name)) ELSE None

\* <name> of <name>.<ext>: what stands before the last dot.
C10_WithoutExt(name) ==
    SubSeq(name, 1, C1_Max({k \in 1..Len(name) : name[k] = "."}) - 1)

C10_sofk == <<"_", "s", "o", "f", "k", ".", "t", "x", "t">>
C10_gofr == <<"_", "g", "o", "f", "r", ".", "t", "x", "t">>

\* As claimed: the two text companions at the file name as it is, the
\* extension not stripped.
C10_AppendedBeforeStripping ==
    (last.op = "init" /\ last.raised = "none") =>
        /\ cfg.sk_path =
              C10_Lookup(xyz_path.dir, C10_WithoutExt(xyz_path.name) \o <<".", "s", "k">>)
        /\ cfg.sofk_txt_path = C10_Lookup(xyz_path.dir, xyz_path.name \o C10_sofk)
        /\ cfg.gofr_txt_path = C10_Lookup(xyz_path.dir, xyz_path.name \o C10_gofr)

\* Amended: the two text companions at the name with its extension stripped.
C10_AppendedToStem ==
    (last.op = "init" /\ last.raised = "none") =>
        /\ cfg.sk_path =
              C10_Lookup(xyz_path.dir, C10_WithoutExt(xyz_path.name) \o <<".", "s", "k">>)
        /\ cfg.sofk_txt_path =
              C10_Lookup(xyz_path.dir, C10_WithoutExt(xyz_path.name) \o C10_sofk)
        /\ cfg.gofr_txt_path =
              C10_Lookup(xyz_path.dir, C10_WithoutExt(xyz_path.name) \o C10_gofr)

\* a.b.xyz with a.b.xyz_sofk.txt beside it and no a.b_sofk.txt: nothing found
\* for the structure factor, while a.b.sk is found.
C10_Witness ==
    /\ last.op = "init"
    /\ xyz_path.name = <<"a", ".", "b", ".", "x", "y", "z">>
    /\ fs[Path(xyz_path.dir, xyz_path.name \o C10_sofk)].exists
    /\ cfg.sofk_txt_path = None
    /\ cfg.gofr_txt_path # None
    /\ cfg.sk_path = PathValue(Path(xyz_path.dir, <<"a", ".", "b", ".", "s", "k">>))

(***************************************************************************)
(* cli.py: the create command.  The directories that exist are in dirs,    *)
(* the structure files in fs; archive is the file at the path create       *)
(* writes to; bucket.up says whether the object store accepts an upload.   *)
(***************************************************************************)

\* Path(text).exists() for a directory.
dir_exists(ds, text) == path_parts(text, <<>>) \in ds

\* The prefixes of a directory path: what mkdir(parents=True) creates.
parents_of(d) == {SubSeq(d, 1, k) : k \in 1..Len(d)}

\* create: xyz_path, from config_dir and the three numbers.
create_xyz_path(config_dir, p, t, n) ==
    Path(path_parts(config_dir, <<>>) \o <<<<"P">> \o int_str(p), <<"T">> \o int_str(t)>>,
         <<"P">> \o int_str(p) \o <<"T">> \o int_str(t)
         \o <<"_", "c", "o", "n", "f", "i", "g", "_">> \o int_str(n)
         \o <<".", "x", "y", "z">>)

\* A call Configuration(*posargs): __init__ takes xyz_path and nothing else.
Configuration_call(files, posargs) ==
    IF Len(posargs) # 1 THEN [raised |-> "TypeError", obj |-> NoCfg]
    ELSE Configuration_init(files, posargs[1])

\* What a run of create leaves: directories, archive, store and outcome.
CreateResult(ds, arch, bkt, exit, console, uploads) ==
    [dirs |-> ds, archive |-> arch, bucket |-> bkt, exit |-> exit,
     console |-> console, uploads |-> uploads]

\* except Exception as e: report, raise typer.Exit(1)
create_failed(ds, arch, bkt, console) ==
    CreateResult(ds, arch, bkt, 1, Append(console, "error"), <<>>)

\* create, from the upload on: config saved at hdf5_file.
create_upload(ds, arch, bkt, environ, config, console) ==
    IF environ.BUCKET # <<>>
    THEN LET key == upload_key(environ.PREFIX, config)
         IN  IF bkt.up
             THEN CreateResult(ds, arch,
                      [bkt EXCEPT !.objects = map_put(bkt.objects, key, arch)],
                      0, Append(console, "uploaded"), <<key>>)
             ELSE CreateResult(ds, arch, bkt, 0,
                               Append(console, "upload_failed"), <<key>>)
    ELSE CreateResult(ds, arch, bkt, 0, Append(console, "skip_upload"), <<>>)

\* create, after config.save_to_hdf5(hdf5_file) with outcome saved.
create_saved(ds, bkt, environ, config, console, saved) ==
    IF saved.raised # "none" THEN create_failed(ds, saved.archive, bkt, console)
    ELSE create_upload(ds, saved.archive, bkt, environ, config,
                       Append(console, "created"))

\* create, after config = Configuration(xyz_path, meta) with outcome made:
\* an archive found at hdf5_file is unlinked, then the configuration saved.
create_constructed(ds, files, arch, bkt, environ, console, made) ==
    IF made.raised # "none" THEN create_failed(ds, arch, bkt, console)
    ELSE IF arch.exists
         THEN create_saved(ds, bkt, environ, made.obj,
                           console \o <<"processing", "deleted">>,
                           save_to_hdf5(made.obj, files, NoArchive))
         ELSE create_saved(ds, bkt, environ, made.obj,
                           Append(console, "processing"),
                           save_to_hdf5(made.obj, files, arch))

\* create, after meta = ConfigurationMeta(...) with outcome meta.
create_with_meta(ds, files, arch, bkt, environ, xyz, meta) ==
    IF meta.raised # "none"
    THEN create_failed(ds, arch, bkt, <<"pressure", "creating">>)
    ELSE create_constructed(ds, files, arch, bkt, environ, <<"pressure", "creating">>,
                            Configuration_call(files, <<xyz, meta.meta>>))

\* create, from xyz_path on: the file must exist; the output directory is
\* made; the metadata are built from the three numbers and --state.
create_with_xyz(ds, files, arch, bkt, environ, args, value, xyz) ==
    IF ~path_exists(files, xyz) THEN create_failed(ds, arch, bkt, <<"pressure">>)
    ELSE create_with_meta(
             ds \cup parents_of(path_parts(args.output, <<>>)),
             files, arch, bkt, environ, xyz,
             ConfigurationMeta(
                 [meta_defaults EXCEPT
                     !["pressure"] = PyInt(value[1]),
                     !["temperature"] = PyInt(value[2]),
                     !["config_number"] = PyInt(value[3]),
                     !["state"] = args.state,
                     !["MD_type"] = PyStr(<<"M", "D", "_", "c", "l", "a", "s", "s",
                                           "i", "c", "a", "l">>)]))

\* create, after extract_run_parameters(run_dir) with outcome params.
create_with_params(ds, files, arch, bkt, environ, args, params) ==
    IF params.raised # "none" THEN create_failed(ds, arch, bkt, <<>>)
    ELSE create_with_xyz(ds, files, arch, bkt, environ, args, params.value,
                         create_xyz_path(args.config_dir, params.value[1],
                                         params.value[2], params.value[3]))

\* The create command.
create(ds, files, arch, bkt, environ, args) ==
    IF ~dir_exists(ds, args.run_dir) THEN create_failed(ds, arch, bkt, <<>>)
    ELSE IF ~dir_exists(ds, args.config_dir) THEN create_failed(ds, arch, bkt, <<>>)
    ELSE create_with_params(ds, files, arch, bkt, environ, args,
                            extract_run_parameters(args.run_dir))

(***************************************************************************)
(* Specification of the create command.  Run directories                   *)
(* runs/P150T2000config60, runs/P150config60 and runs/P0150T2000config60   *)
(* exist or not, as do the configuration directory cfgs with its           *)
(* structure file and the output directory out with an older archive; the  *)
(* environment sets BUCKET and PREFIX or not; the store accepts uploads or *)
(* refuses them.  Then create is run any number of times.                  *)
(***************************************************************************)
txt_runs == <<"r", "u", "n", "s">>
txt_out == <<"o", "u", "t">>
txt_P150T2000config60 ==
    txt_P150 \o txt_T2000 \o <<"c", "o", "n", "f", "i", "g", "6", "0">>
txt_P150config60 == txt_P150 \o <<"c", "o", "n", "f", "i", "g", "6", "0">>
txt_P0150T2000config60 ==
    <<"P", "0", "1", "5", "0">> \o txt_T2000 \o <<"c", "o", "n", "f", "i", "g", "6", "0">>

RunDirNames == {txt_P150T2000config60, txt_P150config60, txt_P0150T2000config60}

\* The run_dir arguments: runs/<name>, the last one with a trailing slash.
RunDirArgs ==
    {txt_runs \o <<"/">> \o txt_P150T2000config60,
     txt_runs \o <<"/">> \o txt_P150config60,
     txt_runs \o <<"/">> \o txt_P0150T2000config60 \o <<"/">>}

CreateArgs ==
    [run_dir : RunDirArgs, config_dir : {txt_configs}, output : {txt_out},
     state : {None, PyEnum("SOLID")}]

\* The directory trees: runs with any of its run directories, cfgs down to
\* any depth, out.
RunsTrees ==
    {{}} \cup {{<<txt_runs>>} \cup {<<txt_runs, n>> : n \in N} : N \in SUBSET RunDirNames}

ConfigTrees == {{}} \cup {parents_of(SubSeq(TheXyzDir, 1, k)) : k \in 1..Len(TheXyzDir)}

CreateDirs ==
    {r \cup c \cup o : r \in RunsTrees, c \in ConfigTrees, o \in {{}, {<<txt_out>>}}}

\* The structure file with one of its headers or missing, the
\* structure-factor companion there or not.
CreateFiles ==
    {[p \in CompanionPaths \cup {TheXyzPath} |->
         IF p = TheXyzPath THEN x
         ELSE IF p.name = txt_P150T2000_config_60 \o suffix_sofk THEN c
         ELSE NoFile] :
     x \in PrimaryFiles \cup {NoFile}, c \in {NoFile, File(<<"b", "\r", "c">>, <<>>)}}

Environments ==
    [BUCKET : {<<>>, <<"b", "k", "t">>}, PREFIX : Prefixes]

InitCreate ==
    /\ run_dir = <<>>
    /\ extract_out = Pending
    /\ info = <<>>
    /\ meta_out = PendingMeta
    /\ xyz_path = TheXyzPath
    /\ fs \in CreateFiles
    /\ cfg = NoCfg
    /\ archive \in {NoArchive, OlderArchive}
    /\ last = Started
    /\ saved_by = NoCfg
    /\ dirs \in {D \in CreateDirs :
                    /\ (\E p \in DOMAIN fs : fs[p].exists) => TheXyzDir \in D
                    /\ archive.exists => <<txt_out>> \in D}
    /\ env \in Environments
    /\ bucket \in [up : BOOLEAN, objects : {<<>>}]
    /\ pages = <<>>
    /\ cli_out = NoCommand
    /\ CoreIdle

\* configurations create RUN_DIR CONFIG_DIR OUTPUT [--state STATE]
Create ==
    \E args \in CreateArgs :
        \E r \in {create(dirs, fs, archive, bucket, env, args)} :
            /\ dirs' = r.dirs
            /\ archive' = r.archive
            /\ bucket' = r.bucket
            /\ cli_out' = [cmd |-> "create", args |-> args, exit |-> r.exit,
                           console |-> r.console, uploads |-> r.uploads,
                           reads |-> <<>>]
            /\ UNCHANGED <<fs, xyz_path, cfg, last, saved_by, env, pages,
                           name_vars, header_vars, core_vars>>

NextCreate == Create

SpecCreate == InitCreate /\ [][NextCreate]_vars

\* The console of the last command holds the message.
Reported(msg) == \E k \in 1..Len(cli_out.console) : cli_out.console[k] = msg

\* The last create was given an existing run directory named
\* P150T2000config60, an existing configuration directory that holds
\* P150/T2000/P150T2000_config_60.xyz, and an output directory.
CreateInputsValid ==
    /\ cli_out.cmd = "create"
    /\ cli_out.args.run_dir = txt_runs \o <<"/">> \o txt_P150T2000config60
    /\ <<txt_runs, txt_P150T2000config60>> \in dirs
    /\ <<txt_configs>> \in dirs
    /\ fs[TheXyzPath].exists

C12_CreateWritesArchive ==
    CreateInputsValid =>
        /\ cli_out.exit = 0
        /\ archive.exists
        /\ "pressure" \in DOMAIN archive.attrs
        /\ archive.attrs["pressure"] = PyInt(150)
        /\ "temperature" \in DOMAIN archive.attrs
        /\ archive.attrs["temperature"] = PyInt(2000)
        /\ "config_number" \in DOMAIN archive.attrs
        /\ archive.attrs["config_number"] = PyInt(60)
        /\ cli_out.args.state # None =>
              /\ "state" \in DOMAIN archive.attrs
              /\ archive.attrs["state"] = PyStr(txt_solid)

(***************************************************************************)
(* core.py: Configuration (name, atoms, positions, lattice vectors) and    *)
(* ConfigurationManager.  The storage directory is a map from file names   *)
(* to files; a file holds datasets.  An array of numbers is a sequence of  *)
(* rows; a fixed-width byte string array is its width and its items.       *)
(***************************************************************************)
NoH5 == [exists |-> FALSE, datasets |-> EmptyMap]

\* Configuration.__init__ of core.py
core_Configuration(name, atoms, positions, lattice_vectors) ==
    [name |-> name, atoms |-> atoms, positions |-> positions,
     lattice_vectors |-> lattice_vectors]

\* np.array(atoms, dtype='S'): every item encoded and padded with NUL bytes
\* to the width of the longest, the width at least 1.
array_S(atoms) ==
    LET width == max_of({1} \cup {Len(atoms[k]) : k \in 1..Len(atoms)})
    IN  [width |-> width,
         items |-> [k \in 1..Len(atoms) |->
                       atoms[k] \o [j \in 1..(width - Len(atoms[k])) |-> "NUL"]]]

\* An item read from a fixed-width byte string array: trailing NUL bytes are
\* not part of it.
RECURSIVE strip_NUL(_)
strip_NUL(bytes) ==
    IF bytes # <<>> /\ bytes[Len(bytes)] = "NUL"
    THEN strip_NUL(SubSeq(bytes, 1, Len(bytes) - 1))
    ELSE bytes

\* Opening for writing without truncation: the datasets of the old file stay.
core_File_keep(old) ==
    IF old.exists THEN old ELSE [exists |-> TRUE, datasets |-> EmptyMap]

\* h5py.File(filename, 'w')
core_File_w(old) == [exists |-> TRUE, datasets |-> EmptyMap]

\* f.create_dataset(key, data=data)
create_dataset(f, key, data) ==
    [f EXCEPT !.datasets = map_put(f.datasets, key, data)]

\* Configuration.save: the file left at filename, where old was.
core_save(c, old) ==
    LET named == create_dataset(core_File_w(old), "name", encode_utf8(c.name))
        with_atoms == create_dataset(named, "atoms", array_S(c.atoms))
        with_positions == create_dataset(with_atoms, "positions", c.positions)
    IN  IF c.lattice_vectors # None
        THEN create_dataset(with_positions, "lattice_vectors", c.lattice_vectors)
        ELSE with_positions

\* Configuration.load
core_load(file) ==
    IF ~file.exists THEN [raised |-> "FileNotFoundError", value |-> <<>>]
    ELSE IF ~({"name", "atoms", "positions"} \subseteq DOMAIN file.datasets)
    THEN [raised |-> "KeyError", value |-> <<>>]
    ELSE [raised |-> "none",
          value |-> core_Configuration(
              decode_utf8(file.datasets["name"]),
              [k \in 1..Len(file.datasets["atoms"].items) |->
                  decode_utf8(strip_NUL(file.datasets["atoms"].items[k]))],
              file.datasets["positions"],
              IF "lattice_vectors" \in DOMAIN file.datasets
              THEN file.datasets["lattice_vectors"] ELSE None)]

suffix_h5 == <<".", "h", "5">>

\* self.storage_dir / f"{name}.h5", for a name that is one path component.
storage_file(name) == name \o suffix_h5

\* A file name matches the pattern '*.h5'.
matches_h5(file_name) ==
    /\ Len(file_name) >= Len(suffix_h5)
    /\ SubSeq(file_name, Len(file_name) - Len(suffix_h5) + 1, Len(file_name)) = suffix_h5

\* ConfigurationManager.create: the storage left.
manager_create(files, name, atoms, positions, lattice_vectors) ==
    [files EXCEPT ![storage_file(name)] =
        core_save(core_Configuration(name, atoms, positions, lattice_vectors), @)]

\* ConfigurationManager.get
manager_get(files, name) == core_load(files[storage_file(name)])

\* ConfigurationManager.list, as the set of its items.
manager_list(files) ==
    {stem(f) : f \in {g \in DOMAIN files : files[g].exists /\ matches_h5(g)}}

\* An unlink that lets a missing file pass.
unlink_missing_ok(file) == [raised |-> "none", file |-> NoH5]

\* Path.unlink()
unlink(file) ==
    IF ~file.exists THEN [raised |-> "FileNotFoundError", file |-> file]
    ELSE [raised |-> "none", file |-> NoH5]

\* ConfigurationManager.delete: the outcome and the storage left.
manager_delete(files, name) ==
    [raised |-> unlink(files[storage_file(name)]).raised,
     files |-> [files EXCEPT ![storage_file(name)] = unlink(@).file]]

(***************************************************************************)
(* Specification of the manager.  One ConfigurationManager on a storage    *)
(* directory that starts empty; create, get, list and delete are called in *)
(* any order with the names '', '.h5' and 'h2', two lists of atoms with    *)
(* their positions, and lattice vectors given or not.  history records,    *)
(* for each name, what the calls that succeeded made of it.                *)
(***************************************************************************)
CoreNames == {<<>>, suffix_h5, <<"h", "2">>}

\* Atoms and positions (in tenths) of the calls.
CoreAtoms ==
    {[atoms |-> <<<<"H">>, <<"H">>>>,
      positions |-> <<<<0, 0, 0>>, <<10, 0, 0>>>>],
     [atoms |-> <<<<"H", "e">>, <<"H">>>>,
      positions |-> <<<<0, 0, 0>>, <<0, 0, 15>>>>]}

Eye3 == <<<<10, 0, 0>>, <<0, 10, 0>>, <<0, 0, 10>>>>

NeverCreated == [status |-> "never", data |-> <<>>, over_lattice |-> FALSE]

InitCore ==
    /\ run_dir = <<>>
    /\ extract_out = Pending
    /\ info = <<>>
    /\ meta_out = PendingMeta
    /\ ArchiveIdle
    /\ CliIdle
    /\ storage = [f \in {storage_file(n) : n \in CoreNames} |-> NoH5]
    /\ history = [n \in CoreNames |-> NeverCreated]
    /\ core_out = NoCall

\* manager.create(name, atoms, positions, lattice_vectors)
ManagerCreate ==
    \E name \in CoreNames, a \in CoreAtoms, lattice_vectors \in {None, Eye3} :
        /\ storage' = manager_create(storage, name, a.atoms, a.positions, lattice_vectors)
        /\ history' = [history EXCEPT ![name] =
              [status |-> "stored",
               data |-> core_Configuration(name, a.atoms, a.positions, lattice_vectors),
               over_lattice |-> (@.status = "stored"
                                 /\ @.data.lattice_vectors # None)]]
        /\ core_out' = [op |-> "create", name |-> name, raised |-> "none",
                        value |-> core_Configuration(name, a.atoms, a.positions,
                                                     lattice_vectors)]
        /\ UNCHANGED <<name_vars, header_vars, archive_vars, cli_vars>>

\* manager.get(name)
ManagerGet ==
    \E name \in CoreNames :
        /\ core_out' = [op |-> "get", name |-> name,
                        raised |-> manager_get(storage, name).raised,
                        value |-> manager_get(storage, name).value]
        /\ UNCHANGED <<storage, history, name_vars, header_vars, archive_vars, cli_vars>>

\* manager.list()
ManagerList ==
    /\ core_out' = [op |-> "list", name |-> <<>>, raised |-> "none",
                    value |-> manager_list(storage)]
    /\ UNCHANGED <<storage, history, name_vars, header_vars, archive_vars, cli_vars>>

\* manager.delete(name)
ManagerDelete ==
    \E name \in CoreNames :
        \E r \in {manager_delete(storage, name)} :
            /\ storage' = r.files
            /\ history' = IF r.raised = "none"
                          THEN [history EXCEPT ![name] =
                                   [NeverCreated EXCEPT !.status = "deleted"]]
                          ELSE history
            /\ core_out' = [op |-> "delete", name |-> name, raised |-> r.raised,
                            value |-> <<>>]
            /\ UNCHANGED <<name_vars, header_vars, archive_vars, cli_vars>>

NextCore ==
    \/ ManagerCreate
    \/ ManagerGet
    \/ ManagerList
    \/ ManagerDelete

SpecCore == InitCore /\ [][NextCore]_vars

(***************************************************************************)
(* C13.  list() returns exactly the names that were created and not        *)
(* deleted since their latest create.                                      *)
(***************************************************************************)
C13_ListIsCreatedNotDeleted ==
    core_out.op = "list" =>
        core_out.value = {n \in CoreNames : history[n].status = "stored"}

(***************************************************************************)
(* C14.  get(name) of a stored name returns the name, atoms and positions  *)
(* of the most recent create(name), with its lattice vectors when they     *)
(* were given and None when they were not, also when the create replaced   *)
(* a configuration that had lattice vectors.                               *)
(***************************************************************************)
C14_GetReturnsLatestCreate ==
    (core_out.op = "get" /\ history[core_out.name].status = "stored") =>
        /\ core_out.raised = "none"
        /\ core_out.value.name = history[core_out.name].data.name
        /\ core_out.value.atoms = history[core_out.name].data.atoms
        /\ core_out.value.positions = history[core_out.name].data.positions
        /\ core_out.value.lattice_vectors = history[core_out.name].data.lattice_vectors

\* get of a name created without lattice vectors over a configuration that
\* had them, its atoms of different lengths.
C14_Witness ==
    /\ core_out.op = "get"
    /\ core_out.raised = "none"
    /\ history[core_out.name].over_lattice
    /\ core_out.value.lattice_vectors = None
    /\ core_out.value.atoms = <<<<"H", "e">>, <<"H">>>>

(***************************************************************************)
(* C16.  get(name) and delete(name) of a name that is not stored (never    *)
(* created, or deleted) raise, and leave list() and the result of get of   *)
(* every other name as they were.                                          *)
(***************************************************************************)
C16_MissingNameFails ==
    [][ (core_out'.op \in {"get", "delete"}
         /\ history[core_out'.name].status # "stored") =>
            /\ core_out'.raised # "none"
            /\ manager_list(storage') = manager_list(storage)
            /\ \A m \in CoreNames \ {core_out'.name} :
                   manager_get(storage', m) = manager_get(storage, m) ]_vars

\* A second delete of the same name fails while another name is stored.
C16_Witness ==
    /\ core_out.op = "delete"
    /\ core_out.raised = "FileNotFoundError"
    /\ history[core_out.name].status = "deleted"
    /\ \E m \in CoreNames : history[m].status = "stored"

(***************************************************************************)
(* cli.py: the catalog command.  The listing is a sequence of pages: a     *)
(* page with no 'Contents', a page with its keys, or the failure of the    *)
(* request for that page.  An object of the store is an archive or         *)
(* something that is no HDF5 file.                                         *)
(***************************************************************************)
NotHdf5 == [exists |-> TRUE, attrs |-> EmptyMap, entries |-> EmptyMap, hdf5 |-> FALSE]

suffix_hdf5 == <<".", "h", "d", "f", "5">>

\* key.endswith('.hdf5')
endswith(key, suffix) ==
    /\ Len(key) >= Len(suffix)
    /\ \A k \in 1..Len(suffix) : key[Len(key) - Len(suffix) + k] = suffix[k]

\* Configuration.read_hdf5_attributes(bucket, key, fs) on the store.
read_from_store(bkt, key) ==
    IF key \notin DOMAIN bkt.objects
    THEN [raised |-> "FileNotFoundError", value |-> EmptyMap]
    ELSE IF bkt.objects[key] = NotHdf5
    THEN [raised |-> "OSError", value |-> EmptyMap]
    ELSE read_hdf5_attributes(bkt.objects[key])

Say(out, msg, key) == [out EXCEPT !.console = Append(@, [msg |-> msg, key |-> key])]

\* rich markup in a printed text: a closing tag '[/...]' that no opening tag
\* of the same text precedes makes rprint raise MarkupError.  The command
\* wraps what it prints in one tag of its own; the texts taken here hold no
\* opening tag.
closing_tag(text) ==
    \E i \in 1..Len(text), j \in 1..Len(text) :
        /\ i + 1 < j
        /\ text[i] = "[" /\ text[i + 1] = "/" /\ text[j] = "]"
        /\ \A k \in (i + 1)..(j - 1) : text[k] # "[" /\ text[k] # "]"

\* rprint of a message built around the key.
rprint(out, msg, key) ==
    IF closing_tag(key) THEN [out EXCEPT !.raised = "MarkupError"]
    ELSE Say(out, msg, key)

\* except Exception as e: rprint(Error reading {key}: {str(e)}); what the
\* handler raises itself leaves the loops.
except_reading(out, key) == rprint(out, "error_reading", key)

\* The body of the inner try, after the attributes were asked for: a failed
\* read raises; attributes that were read are walked as groups, and the
\* first value, which has no items(), raises AttributeError.
catalog_show(out, key, got) ==
    IF got.raised # "none" THEN except_reading(out, key)
    ELSE IF DOMAIN got.value # {} THEN except_reading(Say(out, "group", key), key)
    ELSE out

\* The inner try: the key is printed, then its attributes are read.
catalog_try(bkt, out, key) ==
    IF rprint(out, "key", key).raised # "none" THEN except_reading(out, key)
    ELSE catalog_show([rprint(out, "key", key) EXCEPT !.reads = Append(@, key)],
                      key, read_from_store(bkt, key))

\* One object of a page.
catalog_key(bkt, out, key) ==
    IF out.raised # "none" THEN out
    ELSE IF ~endswith(key, suffix_hdf5) THEN out
    ELSE catalog_try(bkt, out, key)

RECURSIVE catalog_keys(_, _, _, _)
catalog_keys(bkt, out, keys, i) ==
    IF i > Len(keys) THEN out
    ELSE catalog_keys(bkt, catalog_key(bkt, out, keys[i]), keys, i + 1)

\* for page in paginator.paginate(...)
RECURSIVE catalog_pages(_, _, _, _)
catalog_pages(bkt, out, pgs, i) ==
    IF i > Len(pgs) \/ out.raised # "none" THEN out
    ELSE IF pgs[i].failed
         THEN [out EXCEPT !.raised = "ClientError"]
    ELSE IF ~pgs[i].has_contents THEN catalog_pages(bkt, out, pgs, i + 1)
    ELSE catalog_pages(bkt, catalog_keys(bkt, out, pgs[i].keys, 1), pgs, i + 1)

\* The outer try of catalog: an exception is reported and the exit code is 1.
\* The report quotes the exception, and the message of a MarkupError quotes
\* the closing tag: the report raises again and the command ends on the
\* uncaught exception.
catalog_end(out) ==
    IF out.raised = "MarkupError"
    THEN [exit |-> 1, console |-> out.console, reads |-> out.reads]
    ELSE IF out.raised # "none"
    THEN [exit |-> 1, console |-> Append(out.console, [msg |-> "error_listing", key |-> <<>>]),
          reads |-> out.reads]
    ELSE [exit |-> 0, console |-> out.console, reads |-> out.reads]

\* The catalog command.  typer.Exit is an exception the outer handler
\* catches as well.
catalog(bkt, environ, pgs) ==
    IF environ.BUCKET = <<>>
    THEN catalog_end([console |-> <<[msg |-> "bucket_not_set", key |-> <<>>]>>,
                      reads |-> <<>>, raised |-> "Exit"])
    ELSE catalog_end(catalog_pages(bkt,
                                   [console |-> <<[msg |-> "listing", key |-> <<>>]>>,
                                    reads |-> <<>>, raised |-> "none"],
                                   pgs, 1))

(***************************************************************************)
(* Specification of the catalog command.  The store lists at most MaxPages *)
(* pages of at most MaxKeys keys among a.hdf5, b.hdf5, m[/b].hdf5 and      *)
(* c.txt, each key once; a.hdf5 is an archive with attributes, an archive  *)
(* without any, or no HDF5 file; b.hdf5 is an archive with attributes or   *)
(* is gone since the listing; BUCKET is set or not.  Then catalog is run.  *)
(***************************************************************************)
MaxPages == 2
MaxKeys == 2

key_a == <<"a">> \o suffix_hdf5
key_b == <<"b">> \o suffix_hdf5
key_m == <<"m", "[", "/", "b", "]">> \o suffix_hdf5
key_c == <<"c", ".", "t", "x", "t">>

CatalogKeys == {key_a, key_b, key_m, key_c}

CatalogPages ==
    {[failed |-> TRUE, has_contents |-> FALSE, keys |-> <<>>],
     [failed |-> FALSE, has_contents |-> FALSE, keys |-> <<>>]}
    \cup {[failed |-> FALSE, has_contents |-> TRUE, keys |-> ks] :
             ks \in UNION {[1..n -> CatalogKeys] : n \in 1..MaxKeys}}

Listings == UNION {[1..n -> CatalogPages] : n \in 0..MaxPages}

\* The keys of a listing, in the order listed.
Listed(pgs) == Flatten([i \in 1..Len(pgs) |-> pgs[i].keys])

EachKeyOnce(pgs) ==
    \A i, j \in 1..Len(Listed(pgs)) : Listed(pgs)[i] = Listed(pgs)[j] => i = j

ArchiveWithAttrs ==
    [exists |-> TRUE, attrs |-> ("pressure" :> PyInt(150)), entries |-> EmptyMap]

ArchiveWithoutAttrs == [exists |-> TRUE, attrs |-> EmptyMap, entries |-> EmptyMap]

CatalogObjects ==
    {(key_a :> a) @@ (key_c :> NotHdf5) @@ (key_m :> ArchiveWithoutAttrs) @@ b :
        a \in {ArchiveWithAttrs, ArchiveWithoutAttrs, NotHdf5},
        b \in {(key_b :> ArchiveWithAttrs), <<>>}}

InitCatalog ==
    /\ pages \in Listings
    /\ EachKeyOnce(pages)
    /\ run_dir = <<>>
    /\ extract_out = Pending
    /\ info = <<>>
    /\ meta_out = PendingMeta
    /\ ArchiveIdle
    /\ CoreIdle
    /\ dirs = {}
    /\ env \in Environments
    /\ bucket \in [up : {TRUE}, objects : CatalogObjects]
    /\ env.BUCKET = <<>> => (pages = <<>> /\ env.PREFIX = <<>>)
    /\ cli_out = NoCommand

\* configurations catalog
Catalog ==
    \E r \in {catalog(bucket, env, pages)} :
        /\ cli_out' = [cmd |-> "catalog", args |-> <<>>, exit |-> r.exit,
                       console |-> r.console, uploads |-> <<>>, reads |-> r.reads]
        /\ UNCHANGED <<dirs, env, bucket, pages, name_vars, header_vars,
                       archive_vars, core_vars>>

NextCatalog == Catalog

SpecCatalog == InitCatalog /\ [][NextCatalog]_vars

(***************************************************************************)
(* C15.  catalog never aborts the listing over one archive: when the store *)
(* returns the whole listing, every key that ends in '.hdf5' is processed, *)
(* in the order listed, whatever happened to the keys before it: it is     *)
(* read, or an error is reported for it; a key whose read fails has its    *)
(* error reported; no other key is read; the command ends without an error *)
(* exit.                                                                   *)
(***************************************************************************)
C15_IsHdf5(key) ==
    Len(key) >= 5 /\ SubSeq(key, Len(key) - 4, Len(key)) = <<".", "h", "d", "f", "5">>

C15_Unreadable(key) ==
    key \notin DOMAIN bucket.objects \/ bucket.objects[key] = NotHdf5

C15_ReportedFor(key) ==
    \E j \in 1..Len(cli_out.console) :
        cli_out.console[j] = [msg |-> "error_reading", key |-> key]

C15_CatalogGoesOn ==
    (cli_out.cmd = "catalog" /\ env.BUCKET # <<>>
     /\ \A i \in 1..Len(pages) : ~pages[i].failed) =>
        /\ \A k \in 1..Len(Listed(pages)) :
               LET key == Listed(pages)[k] IN
               IF C15_IsHdf5(key)
               THEN /\ (\E r \in 1..Len(cli_out.reads) : cli_out.reads[r] = key)
                       \/ C15_ReportedFor(key)
                    /\ C15_Unreadable(key) => C15_ReportedFor(key)
               ELSE \A r \in 1..Len(cli_out.reads) : cli_out.reads[r] # key
        /\ \A q, r \in 1..Len(cli_out.reads) :
               q < r => \E i, j \in 1..Len(Listed(pages)) :
                            /\ i < j
                            /\ Listed(pages)[i] = cli_out.reads[q]
                            /\ Listed(pages)[j] = cli_out.reads[r]
        /\ cli_out.exit = 0

====
